---- MODULE Spec2Model ----
(***************************************************************************)
(* Model of examples/filewatch/main.go: one websocket session that tails   *)
(* a file (tailFile), optionally switches to a second file after a delay   *)
(* (changeTailFile), multiplexes lines, pings and the stop signal onto the *)
(* connection (writer) and monitors the inbound side (reader).  The line   *)
(* source of a second session, which shares the package-level rd, is       *)
(* modelled next to it and runs under SpecTwo only.                        *)
(*                                                                         *)
(* Time is a clock in seconds.  Goroutine steps take no time; time passes  *)
(* only when no goroutine has a step that makes progress (the end-of-file  *)
(* retry of tailFile is the one step that may repeat while time passes),   *)
(* and it passes from one due instant to the next.  Timers (ticker, read   *)
(* deadline, switchover sleep) fire at the instant they are due.  Events   *)
(* of the environment that carry no time of their own (appends, the peer   *)
(* dropping the connection, a read error) happen at any point between two  *)
(* steps.                                                                  *)
(***************************************************************************)
EXTENDS Integers, Sequences, FiniteSets

\* ---------------------------------------------------------------- constants
Second == 1

\* main.go:27
pongWait == 60 * Second
\* (mutant: numerator and denominator swapped)
pingPeriod_Swapped == (pongWait * 10) \div 9
\* main.go:30
pingPeriod == (pongWait * 9) \div 10
\* main.go:98
switchDelay == 20 * Second
\* main.go:154, capacity of the data channel
DataCap == 10

\* ------------------------------------------------------------------- bounds
\* bytes of one line of the watched files, delimiter included
LineLen == 2
\* bytes the external writer appends to the files during one session
MaxBytes == 2
\* pongs the client sends before it falls silent
MaxPongs == 1
\* the client answers a ping after k * DelayStep, k in 1..MaxDelaySteps
MaxDelaySteps == 2
DelayStep == 3 * Second
PongDelays == {k * DelayStep : k \in 1..MaxDelaySteps}

Files == {1, 2}

\* The bufio.Readers a program run creates: 1 and 2 are the readers of the
\* session over its first and second file (main.go:71, :99), 3 and 4 those
\* a second session creates over the same files.
Readers == {1, 2, 3, 4}
FileOf(r) == ((r - 1) % 2) + 1

VARIABLES
    now,        \* wall clock
    nfiles,     \* len(filename)
    exists,     \* exists[f]: os.Open(filename[f-1]) succeeds
    flen,       \* flen[f]: bytes in file f
    startLen,   \* flen at the moment the session started
    quota,      \* bytes the external writer will still append
    rd,         \* package-level rd: 0 = nil, r = the bufio.Reader r
    off,        \* off[r]: bytes consumed through reader r
    fopen,      \* file handles tailFile holds open
    tpc,        \* tailFile: position
    cur,        \* tailFile: reader loaded from rd for the read in progress
    line,       \* tailFile: line returned by ReadBytes
    err,        \* tailFile: err returned by ReadBytes: "nil", "EOF", "other"
    tailErr,    \* tailFile: the failure it met: "none" | "open" | "read"
    cpc,        \* changeTailFile: position
    wake,       \* changeTailFile: instant its Sleep returns
    data,       \* data channel (buffered)
    wpc,        \* writer: position
    p,          \* writer: frame being written
    tickC,      \* pingTicker.C holds a tick
    nextTick,   \* next instant the ticker fires
    tickPeriod, \* period the ticker was created with, 0 = no ticker yet
    tickerOn,   \* ticker not stopped
    conn,       \* "open" | "closed" (ws.Close called)
    peer,       \* "up" | "gone"
    rpc,        \* reader: position
    deadline,   \* read deadline of the connection
    pongsOwed,  \* pings the client received and has not looked at
    pongQuota,  \* pongs the client will still send
    pongDue,    \* instant the pong under way reaches the server, -1 = none
    log,        \* frames written to the connection, in order
    writing,    \* writes in progress: set of <<goroutine, frame>>
    observed,   \* events the writer's select took, in order
    stopSent,   \* completed sends on the stop channel
    closes,     \* goroutines that called ws.Close, in order
    lastProbe,  \* instant of the last ping written successfully, -1 = none
    readStart,  \* instant the reader set its first read deadline, -1 = none
    lastPong,   \* instant the pong handler last ran, -1 = none
    responsive, \* the client has answered every ping it took, each in time
    tpcB,       \* tailFile of a second session: position
    curB,       \* tailFile of a second session: reader loaded from rd
    cpcB,       \* changeTailFile of a second session: position
    wakeB       \* changeTailFile of a second session: end of its Sleep

vars == <<now, nfiles, exists, flen, startLen, quota, rd, off, fopen, tpc,
          cur, line, err, tailErr, cpc, wake, data, wpc, p, tickC, nextTick,
          tickPeriod, tickerOn,
          conn, peer, rpc, deadline, pongsOwed, pongQuota, pongDue, log,
          writing,
          observed, stopSent, closes, lastProbe, readStart, lastPong,
          responsive, tpcB, curB, cpcB, wakeB>>

fileVars   == <<nfiles, exists, flen, startLen, quota>>
tailVars   == <<rd, off, fopen, tpc, cur, line, err, tailErr>>
changeVars == <<cpc, wake>>
writerVars == <<wpc, p, tickC, nextTick, tickPeriod, tickerOn>>
readerVars == <<rpc, deadline, readStart, lastPong>>
clientVars == <<peer, pongsOwed, pongQuota, pongDue, responsive>>
otherVars  == <<tpcB, curB, cpcB, wakeB>>
histVars   == <<log, writing, observed, stopSent, closes, lastProbe>>

\* ------------------------------------------------------------ file contents
\* Files are append-only; byte i of a file is the delimiter exactly when it
\* ends a line.
IsNL(i) == i % LineLen = 0

Min(S) == CHOOSE x \in S : \A y \in S : x <= y

\* A payload is the byte range lo..hi of file src; src = 0 is a payload that
\* comes from no file.
Payload(f, lo, hi) == [src |-> f, lo |-> lo, hi |-> hi]
NoPayload == Payload(0, 0, 0)
\* []byte("Interval error happens, TERMINATE"), main.go:66 and :89
Sentinel == Payload(0, 1, 1)

\* bufio.Reader.ReadBytes('\n') on a reader that has consumed o bytes of a
\* file holding n bytes: up to and including the first delimiter, or
\* everything left together with io.EOF.  The bytes returned are consumed
\* in both cases.
ReadBytes(o, n) ==
    LET nls == {j \in (o+1)..n : IsNL(j)}
    IN  IF nls # {} THEN [hi |-> Min(nls), err |-> "nil"]
                    ELSE [hi |-> n,        err |-> "EOF"]

Frame(kind, pl) == [kind |-> kind, pl |-> pl]

\* --------------------------------------------------------------------- Init
\* the goroutines, the connection and the client when a session starts
InitSession ==
    /\ now = 0
    /\ startLen = flen
    /\ quota = MaxBytes
    /\ rd = 0
    /\ off = [r \in Readers |-> 0]
    /\ fopen = {}
    /\ tpc = "idle"
    /\ cur = 0
    /\ line = NoPayload
    /\ err = "nil"
    /\ tailErr = "none"
    /\ cpc = "idle"
    /\ wake = 0
    /\ data = <<>>
    /\ wpc = "start"
    /\ p = Frame("none", NoPayload)
    /\ tickC = FALSE
    /\ nextTick = 0
    /\ tickPeriod = 0
    /\ tickerOn = FALSE
    /\ conn = "open"
    /\ peer = "up"
    /\ rpc = "start"
    /\ deadline = 0
    /\ pongsOwed = 0
    /\ pongDue = -1
    /\ log = <<>>
    /\ writing = {}
    /\ observed = <<>>
    /\ stopSent = 0
    /\ closes = <<>>
    /\ lastProbe = -1
    /\ readStart = -1
    /\ lastPong = -1
    /\ responsive = TRUE
    /\ tpcB = "idle"
    /\ curB = 0
    /\ cpcB = "idle"
    /\ wakeB = 0

\* One or two file names on the command line; each file is there or not and
\* holds whole lines when the session starts.
Init ==
    /\ nfiles \in {1, 2}
    /\ exists \in [Files -> BOOLEAN]
    /\ \A f \in Files : f > nfiles => ~exists[f]
    /\ \E c \in {0, LineLen} :
          flen = [f \in Files |-> IF exists[f] THEN c ELSE 0]
    /\ pongQuota = MaxPongs
    /\ InitSession

\* A session that starts on a first file holding one line more than the
\* data channel has room for.
InitBacklog ==
    /\ nfiles = 2
    /\ exists = [f \in Files |-> TRUE]
    /\ flen = [f \in Files |-> IF f = 1 THEN (DataCap + 1) * LineLen ELSE 0]
    /\ pongQuota = MaxPongs
    /\ InitSession

\* A session on two empty files with a client that answers one ping more.
InitResponsive ==
    /\ nfiles = 2
    /\ exists = [f \in Files |-> TRUE]
    /\ flen = [f \in Files |-> 0]
    /\ pongQuota = MaxPongs + 1
    /\ InitSession

\* ----------------------------------------------------------------- tailFile
\* main.go:64-79: open the primary file; on failure go to the error path,
\* otherwise install the reader in rd, open the second file and start
\* changeTailFile when that open succeeds.
TailOpen ==
    /\ tpc = "open"
    /\ IF ~exists[1]
       THEN /\ tpc' = "errData"
            /\ tailErr' = "open"
            /\ UNCHANGED <<rd, off, fopen, cpc, wake>>
       ELSE /\ rd' = 1
            /\ UNCHANGED tailErr
            /\ off' = [off EXCEPT ![1] = 0]
            /\ fopen' = {1} \cup (IF nfiles > 1 /\ exists[2] THEN {2} ELSE {})
            /\ IF nfiles > 1 /\ exists[2]
               THEN cpc' = "sleep" /\ wake' = now + switchDelay
               ELSE UNCHANGED <<cpc, wake>>
            /\ tpc' = "load"
    /\ UNCHANGED <<otherVars, now, fileVars, cur, line, err, data,
                   writerVars, conn, readerVars, clientVars, histVars>>

\* main.go:82, evaluation of the receiver: the package-level rd is loaded
\* without synchronisation.
TailLoad ==
    /\ tpc = "load"
    /\ cur' = rd
    /\ tpc' = "read"
    /\ UNCHANGED <<otherVars, now, fileVars, rd, off, fopen, line, tailErr,
                   err, changeVars, data, writerVars, conn, readerVars,
                   clientVars, histVars>>

\* The tailFile goroutines of two sessions are inside ReadBytes on the same
\* bufio.Reader.  A bufio.Reader is not safe for concurrent use: what the
\* two calls return is undefined, and the model follows no behaviour beyond
\* such a state.
Racing == tpc = "read" /\ tpcB = "read" /\ cur = curB

\* (mutant: io.EOF is not told apart from the other errors)
TailRead_EofFatal(ioerr) ==
    /\ tpc = "read"
    /\ ~Racing
    /\ LET r == ReadBytes(off[cur], flen[FileOf(cur)])
       IN  IF ioerr \/ r.err = "EOF"
           THEN /\ tpc' = "errData"
                /\ tailErr' = "read"
                /\ err' = IF ioerr THEN "other" ELSE "EOF"
                /\ off' = IF ioerr THEN off ELSE [off EXCEPT ![cur] = r.hi]
                /\ UNCHANGED line
           ELSE /\ off' = [off EXCEPT ![cur] = r.hi]
                /\ err' = r.err
                /\ UNCHANGED tailErr
                /\ tpc' = "send"
                /\ line' = Payload(FileOf(cur), off[cur] + 1, r.hi)
    /\ UNCHANGED <<otherVars, now, fileVars, rd, fopen, cur, changeVars,
                   data, writerVars, conn, readerVars, clientVars, histVars>>

\* main.go:82-92, ReadBytes on the loaded reader and the dispatch on err.
\* ioerr is the outcome of the underlying read: FALSE, or TRUE for an error
\* other than io.EOF.
TailRead(ioerr) ==
    /\ tpc = "read"
    /\ ~Racing
    /\ IF ioerr
       THEN /\ tpc' = "errData"
            /\ tailErr' = "read"
            /\ err' = "other"
            /\ UNCHANGED <<off, line>>
       ELSE LET r == ReadBytes(off[cur], flen[FileOf(cur)])
            IN  /\ off' = [off EXCEPT ![cur] = r.hi]
                /\ err' = r.err
                /\ UNCHANGED tailErr
                /\ IF r.err = "EOF"
                   THEN tpc' = "load" /\ UNCHANGED line
                   ELSE /\ tpc' = "send"
                        /\ line' = Payload(FileOf(cur), off[cur] + 1, r.hi)
    /\ UNCHANGED <<otherVars, now, fileVars, rd, fopen, cur, changeVars, data,
                   writerVars, conn, readerVars, clientVars, histVars>>

\* (mutant: a send that gives the line up when the channel is full)
TailSend_DropWhenFull ==
    /\ tpc = "send"
    /\ data' = IF Len(data) < DataCap THEN Append(data, line) ELSE data
    /\ tpc' = "load"
    /\ UNCHANGED <<otherVars, now, fileVars, rd, off, fopen, cur, line,
                   tailErr, err, changeVars, writerVars, conn, readerVars,
                   clientVars, histVars>>

\* main.go:93, data <- line: blocks while the channel is full.
TailSend ==
    /\ tpc = "send"
    /\ Len(data) < DataCap
    /\ data' = Append(data, line)
    /\ tpc' = "load"
    /\ UNCHANGED <<otherVars, now, fileVars, rd, off, fopen, cur, line,
                   tailErr, err, changeVars, writerVars, conn, readerVars,
                   clientVars, histVars>>

\* main.go:66 and :89, data <- sentinel.
TailErrData ==
    /\ tpc = "errData"
    /\ Len(data) < DataCap
    /\ data' = Append(data, Sentinel)
    /\ tpc' = "errStop"
    /\ UNCHANGED <<otherVars, now, fileVars, rd, off, fopen, cur, line,
                   tailErr, err, changeVars, writerVars, conn, readerVars,
                   clientVars, histVars>>

\* main.go:67 and :90, stop <- 1: the channel is unbuffered, the send
\* completes in WriterSelStop.  main.go:68/:91 with the deferred Close calls
\* of :70 and :78: tailFile returns and releases its handles.
TailExit ==
    /\ tpc = "exit"
    /\ fopen' = {}
    /\ tpc' = "done"
    /\ UNCHANGED <<otherVars, now, fileVars, rd, off, cur, line, tailErr, err,
                   changeVars, data, writerVars, conn, readerVars, clientVars,
                   histVars>>

\* ----------------------------------------------------------- changeTailFile
\* main.go:98, time.Sleep returns.
ChangeWake ==
    /\ cpc = "sleep"
    /\ now >= wake
    /\ cpc' = "assign"
    /\ UNCHANGED <<otherVars, now, fileVars, tailVars, wake, data, writerVars,
                   conn, readerVars, clientVars, histVars>>

\* main.go:99, rd = bufio.NewReader(file): a fresh reader at offset 0 of the
\* second file replaces the package-level rd.
ChangeAssign ==
    /\ cpc = "assign"
    /\ rd' = 2
    /\ off' = [off EXCEPT ![2] = 0]
    /\ cpc' = "done"
    /\ UNCHANGED <<otherVars, now, fileVars, fopen, tpc, cur, line, tailErr,
                   err, wake, data, writerVars, conn, readerVars, clientVars,
                   histVars>>

\* ----------------------------------------------------------- second session
\* A second connection is served while goroutines of the first session are
\* alive.  Of the second session only the line source is modelled: its
\* files open, its reads meet no error, and its own writer takes every line
\* from its own data channel.  rd is the one package-level variable both
\* sessions use.

\* main.go:199 and :164 for the second connection: go writer, go tailFile.
OtherStart ==
    /\ tpcB = "idle"
    /\ tpc \in {"load", "read", "send"} \/ cpc \in {"sleep", "assign"}
    /\ tpcB' = "open"
    /\ UNCHANGED <<now, fileVars, tailVars, changeVars, data, writerVars,
                   conn, readerVars, clientVars, histVars, curB, cpcB,
                   wakeB>>

\* main.go:64-79 in the second session.
OtherTailOpen ==
    /\ tpcB = "open"
    /\ IF ~exists[1]
       THEN /\ tpcB' = "done"
            /\ UNCHANGED <<rd, off, cpcB, wakeB>>
       ELSE /\ rd' = 3
            /\ off' = [off EXCEPT ![3] = 0]
            /\ IF nfiles > 1 /\ exists[2]
               THEN cpcB' = "sleep" /\ wakeB' = now + switchDelay
               ELSE UNCHANGED <<cpcB, wakeB>>
            /\ tpcB' = "load"
    /\ UNCHANGED <<now, fileVars, fopen, tpc, cur, line, err, tailErr,
                   changeVars, data, writerVars, conn, readerVars,
                   clientVars, histVars, curB>>

\* main.go:82 in the second session: rd is loaded.
OtherTailLoad ==
    /\ tpcB = "load"
    /\ curB' = rd
    /\ tpcB' = "read"
    /\ UNCHANGED <<now, fileVars, tailVars, changeVars, data, writerVars,
                   conn, readerVars, clientVars, histVars, cpcB, wakeB>>

\* main.go:82-86 in the second session.
OtherTailRead ==
    /\ tpcB = "read"
    /\ ~Racing
    /\ LET r == ReadBytes(off[curB], flen[FileOf(curB)])
       IN  /\ off' = [off EXCEPT ![curB] = r.hi]
           /\ tpcB' = IF r.err = "EOF" THEN "load" ELSE "send"
    /\ UNCHANGED <<now, fileVars, rd, fopen, tpc, cur, line, err, tailErr,
                   changeVars, data, writerVars, conn, readerVars,
                   clientVars, histVars, curB, cpcB, wakeB>>

\* main.go:93 in the second session.
OtherTailSend ==
    /\ tpcB = "send"
    /\ tpcB' = "load"
    /\ UNCHANGED <<now, fileVars, tailVars, changeVars, data, writerVars,
                   conn, readerVars, clientVars, histVars, curB, cpcB,
                   wakeB>>

\* main.go:98 in the second session.
OtherChangeWake ==
    /\ cpcB = "sleep"
    /\ now >= wakeB
    /\ cpcB' = "assign"
    /\ UNCHANGED <<now, fileVars, tailVars, changeVars, data, writerVars,
                   conn, readerVars, clientVars, histVars, tpcB, curB,
                   wakeB>>

\* main.go:99 in the second session.
OtherChangeAssign ==
    /\ cpcB = "assign"
    /\ rd' = 4
    /\ off' = [off EXCEPT ![4] = 0]
    /\ cpcB' = "done"
    /\ UNCHANGED <<now, fileVars, fopen, tpc, cur, line, err, tailErr,
                   changeVars, data, writerVars, conn, readerVars,
                   clientVars, histVars, tpcB, curB, wakeB>>

\* ------------------------------------------------------------------- writer
\* A write on the connection succeeds while the connection is open and the
\* peer is there.
ConnOk == conn = "open" /\ peer = "up"

\* (mutant: the ticker is created with pongWait as its period)
WriterStart_SlowTicker ==
    /\ wpc = "start"
    /\ tickPeriod' = pongWait
    /\ nextTick' = now + pongWait
    /\ tickerOn' = TRUE
    /\ tpc' = "open"
    /\ wpc' = "select"
    /\ UNCHANGED <<otherVars, now, fileVars, rd, off, fopen, cur, line,
                   tailErr, err, changeVars, data, p, tickC, conn,
                   readerVars, clientVars, histVars>>

\* main.go:154-164: the channels, the ticker, the deferred cleanup and
\* go tailFile.
WriterStart ==
    /\ wpc = "start"
    /\ tickPeriod' = pingPeriod
    /\ nextTick' = now + pingPeriod
    /\ tickerOn' = TRUE
    /\ tpc' = "open"
    /\ wpc' = "select"
    /\ UNCHANGED <<otherVars, now, fileVars, rd, off, fopen, cur, line,
                   tailErr, err, changeVars, data, p, tickC, conn, readerVars,
                   clientVars, histVars>>

\* time.Ticker created at main.go:158: at each period it puts a tick into
\* its channel of capacity one, and drops the tick when the channel is full.
TickerFire ==
    /\ tickerOn
    /\ now >= nextTick
    /\ tickC' = TRUE
    /\ nextTick' = nextTick + tickPeriod
    /\ UNCHANGED <<otherVars, now, fileVars, tailVars, changeVars, data, wpc,
                   p, tickPeriod, tickerOn, conn, readerVars, clientVars,
                   histVars>>

\* The goroutine g starts writing frame fr on the connection.
BeginWrite(g, fr) == writing' = writing \cup {<<g, fr>>}

\* main.go:167-168: select takes a line from the data channel.
WriterSelData ==
    /\ wpc = "select"
    /\ data # <<>>
    /\ p' = Frame("data", Head(data))
    /\ data' = Tail(data)
    /\ wpc' = "wData"
    /\ observed' = Append(observed, "data")
    /\ BeginWrite("writer", Frame("data", Head(data)))
    /\ UNCHANGED <<otherVars, now, fileVars, tailVars, changeVars, tickC,
                   nextTick, tickPeriod, tickerOn, conn, readerVars,
                   clientVars, log, stopSent, closes, lastProbe>>

\* (mutant: tailFile has no return after stop <- 1 and runs its error path
\* again)
WriterSelStop_TailLoops ==
    /\ wpc = "select"
    /\ tpc = "errStop"
    /\ tpc' = "errData"
    /\ stopSent' = stopSent + 1
    /\ p' = Frame("close", NoPayload)
    /\ wpc' = "wClose"
    /\ observed' = Append(observed, "close")
    /\ BeginWrite("writer", Frame("close", NoPayload))
    /\ UNCHANGED <<otherVars, now, fileVars, rd, off, fopen, cur, line,
                   tailErr, err, changeVars, data, tickC, nextTick,
                   tickPeriod, tickerOn, conn, readerVars, clientVars, log,
                   closes, lastProbe>>

\* main.go:172-173: select receives from stop, which completes the send of
\* tailFile (main.go:67 / :90).
WriterSelStop ==
    /\ wpc = "select"
    /\ tpc = "errStop"
    /\ tpc' = "exit"
    /\ stopSent' = stopSent + 1
    /\ p' = Frame("close", NoPayload)
    /\ wpc' = "wClose"
    /\ observed' = Append(observed, "close")
    /\ BeginWrite("writer", Frame("close", NoPayload))
    /\ UNCHANGED <<otherVars, now, fileVars, rd, off, fopen, cur, line,
                   tailErr, err, changeVars, data, tickC, nextTick,
                   tickPeriod, tickerOn, conn, readerVars, clientVars, log,
                   closes, lastProbe>>

\* main.go:176-177: select takes a tick.
WriterSelTick ==
    /\ wpc = "select"
    /\ tickC
    /\ tickC' = FALSE
    /\ p' = Frame("ping", NoPayload)
    /\ wpc' = "wPing"
    /\ observed' = Append(observed, "ping")
    /\ BeginWrite("writer", Frame("ping", NoPayload))
    /\ UNCHANGED <<otherVars, now, fileVars, tailVars, changeVars, data,
                   nextTick, tickPeriod, tickerOn, conn, readerVars,
                   clientVars, log, stopSent, closes, lastProbe>>

\* main.go:169-171: WriteMessage(TextMessage, p) returns.
WriterWriteData ==
    /\ wpc = "wData"
    /\ writing' = writing \ {<<"writer", p>>}
    /\ IF ConnOk
       THEN log' = Append(log, p) /\ wpc' = "select"
       ELSE UNCHANGED log /\ wpc' = "exit"
    /\ UNCHANGED <<otherVars, now, fileVars, tailVars, changeVars, data, p,
                   tickC, nextTick, tickPeriod, tickerOn, conn, readerVars,
                   clientVars, observed, stopSent, closes, lastProbe>>

\* main.go:178-180: WriteMessage(PingMessage) returns.
WriterWritePing ==
    /\ wpc = "wPing"
    /\ writing' = writing \ {<<"writer", p>>}
    /\ IF ConnOk
       THEN /\ log' = Append(log, p)
            /\ lastProbe' = now
            /\ pongsOwed' = pongsOwed + 1
            /\ wpc' = "select"
       ELSE /\ UNCHANGED <<log, lastProbe, pongsOwed>>
            /\ wpc' = "exit"
    /\ UNCHANGED <<otherVars, now, fileVars, tailVars, changeVars, data, p,
                   tickC, nextTick, tickPeriod, tickerOn, conn, readerVars,
                   peer, pongQuota, pongDue, responsive, observed, stopSent,
                   closes>>

\* (mutant: no return after the close frame, the loop goes on)
WriterWriteClose_NoReturn ==
    /\ wpc = "wClose"
    /\ writing' = writing \ {<<"writer", p>>}
    /\ log' = IF ConnOk THEN Append(log, p) ELSE log
    /\ wpc' = "select"
    /\ UNCHANGED <<otherVars, now, fileVars, tailVars, changeVars, data, p,
                   tickC, nextTick, tickPeriod, tickerOn, conn, readerVars,
                   clientVars, observed, stopSent, closes, lastProbe>>

\* main.go:174-175: WriteMessage(CloseMessage) returns, its error ignored.
WriterWriteClose ==
    /\ wpc = "wClose"
    /\ writing' = writing \ {<<"writer", p>>}
    /\ log' = IF ConnOk THEN Append(log, p) ELSE log
    /\ wpc' = "exit"
    /\ UNCHANGED <<otherVars, now, fileVars, tailVars, changeVars, data, p,
                   tickC, nextTick, tickPeriod, tickerOn, conn, readerVars,
                   clientVars, observed, stopSent, closes, lastProbe>>

\* (mutant: the deferred function closes the connection and leaves the
\* ticker running)
WriterExit_TickerLeft ==
    /\ wpc = "exit"
    /\ conn' = "closed"
    /\ closes' = Append(closes, "writer")
    /\ wpc' = "done"
    /\ UNCHANGED <<otherVars, now, fileVars, tailVars, changeVars, data, p,
                   tickC, nextTick, tickPeriod, tickerOn, readerVars,
                   clientVars, log, writing, observed, stopSent, lastProbe>>

\* main.go:159-162, the deferred function: pingTicker.Stop and ws.Close.
WriterExit ==
    /\ wpc = "exit"
    /\ tickerOn' = FALSE
    /\ conn' = "closed"
    /\ closes' = Append(closes, "writer")
    /\ wpc' = "done"
    /\ UNCHANGED <<otherVars, now, fileVars, tailVars, changeVars, data, p,
                   tickC, nextTick, tickPeriod, readerVars, clientVars, log,
                   writing, observed, stopSent, lastProbe>>

\* ------------------------------------------------------------------- reader
\* main.go:103-106: the deferred Close is registered, the read limit, the
\* first read deadline and the pong handler are set.
ReaderStart ==
    /\ rpc = "start"
    /\ deadline' = now + pongWait
    /\ readStart' = now
    /\ rpc' = "read"
    /\ UNCHANGED <<otherVars, lastPong, now, fileVars, tailVars, changeVars,
                   data, writerVars, conn, clientVars, histVars>>

\* (mutant: a pong handler that does not set the read deadline)
ReaderPong_NoReset ==
    /\ pongDue >= 0
    /\ now >= pongDue
    /\ pongDue' = -1
    /\ IF rpc = "read" /\ conn = "open" /\ peer = "up"
       THEN lastPong' = now
       ELSE UNCHANGED lastPong
    /\ UNCHANGED <<otherVars, now, fileVars, tailVars, changeVars, data,
                   writerVars, conn, peer, pongsOwed, pongQuota, responsive,
                   rpc, deadline, readStart, histVars>>

\* main.go:106, the pong handler, run by ReadMessage when a pong arrives.
\* A pong that reaches a connection nobody reads any more is lost.
ReaderPong ==
    /\ pongDue >= 0
    /\ now >= pongDue
    /\ pongDue' = -1
    /\ IF rpc = "read" /\ conn = "open" /\ peer = "up"
       THEN deadline' = now + pongWait /\ lastPong' = now
       ELSE UNCHANGED <<deadline, lastPong>>
    /\ UNCHANGED <<otherVars, now, fileVars, tailVars, changeVars, data,
                   writerVars, conn, peer, pongsOwed, pongQuota, responsive,
                   rpc, readStart, histVars>>

\* main.go:108-111: ReadMessage returns an error: the deadline has passed,
\* the peer has gone or the connection has been closed.
ReaderFail ==
    /\ rpc = "read"
    /\ \/ conn = "closed"
       \/ peer = "gone"
       \/ now >= deadline
    /\ rpc' = "closing"
    /\ UNCHANGED <<otherVars, now, fileVars, tailVars, changeVars, data,
                   writerVars, conn, deadline, readStart, lastPong,
                   clientVars, histVars>>

\* (mutant: the reader sends a close frame of its own before closing)
ReaderClose_WritesClose ==
    /\ rpc = "closing"
    /\ conn' = "closed"
    /\ closes' = Append(closes, "reader")
    /\ writing' = writing \cup {<<"reader", Frame("close", NoPayload)>>}
    /\ rpc' = "done"
    /\ UNCHANGED <<otherVars, now, fileVars, tailVars, changeVars, data,
                   writerVars, deadline, readStart, lastPong, clientVars,
                   log, observed, stopSent, lastProbe>>

\* main.go:103, the deferred ws.Close: it closes the network connection
\* without writing a frame.
ReaderClose ==
    /\ rpc = "closing"
    /\ conn' = "closed"
    /\ closes' = Append(closes, "reader")
    /\ rpc' = "done"
    /\ UNCHANGED <<otherVars, now, fileVars, tailVars, changeVars, data,
                   writerVars, deadline, readStart, lastPong, clientVars,
                   log, writing, observed, stopSent, lastProbe>>

\* -------------------------------------------------------------- environment
\* The external writer appends n bytes to file f (appendFile, main.go:138
\* and :144, appends whole lines; any other process may append any chunk).
\* The log.Fatal calls of appendFile are not part of the session.
AppendBytes(f, n) ==
    /\ f <= nfiles
    /\ exists[f]
    /\ n <= quota
    /\ flen' = [flen EXCEPT ![f] = @ + n]
    /\ quota' = quota - n
    /\ UNCHANGED <<otherVars, now, nfiles, exists, startLen, tailVars,
                   changeVars, data, writerVars, conn, readerVars, clientVars,
                   histVars>>

\* The client takes a ping it received: it answers with a pong that
\* arrives d later, or it has fallen silent and answers no ping any more.
ClientPing(d, answer) ==
    /\ pongsOwed > 0
    /\ pongDue = -1
    /\ pongsOwed' = pongsOwed - 1
    /\ IF answer /\ pongQuota > 0 /\ peer = "up"
       THEN /\ pongDue' = now + d
            /\ pongQuota' = pongQuota - 1
            /\ responsive' = (responsive /\ d < pongWait - pingPeriod)
       ELSE /\ pongDue' = -1
            /\ pongQuota' = 0
            /\ responsive' = FALSE
    /\ UNCHANGED <<otherVars, now, fileVars, tailVars, changeVars, data,
                   writerVars, conn, peer, readerVars, histVars>>

\* The peer drops the connection.
PeerDrop ==
    /\ peer = "up"
    /\ conn = "open"
    /\ peer' = "gone"
    /\ responsive' = FALSE
    /\ UNCHANGED <<otherVars, now, fileVars, tailVars, changeVars, data,
                   writerVars, conn, readerVars, pongsOwed, pongQuota,
                   pongDue, histVars>>

\* --------------------------------------------------------------------- time
WriterUrgent ==
    \/ wpc \in {"start", "wData", "wPing", "wClose", "exit"}
    \/ wpc = "select" /\ (data # <<>> \/ tpc = "errStop" \/ tickC)

ReaderUrgent ==
    \/ rpc \in {"start", "closing"}
    \/ rpc = "read" /\ (conn = "closed" \/ peer = "gone" \/ now >= deadline)

ChangeUrgent ==
    \/ cpc = "assign"
    \/ cpc = "sleep" /\ now >= wake

\* tailFile has a step to take now: a read on a file returns at once, a send
\* goes through unless the channel is full; only the retry after end-of-file
\* goes on while time passes.
TailUrgent ==
    \/ tpc \in {"open", "read", "exit"}
    \/ tpc \in {"send", "errData"} /\ Len(data) < DataCap
    \/ tpc = "load" /\ rd # 0 /\ off[rd] < flen[FileOf(rd)]

ClientUrgent ==
    \/ pongsOwed > 0 /\ pongDue = -1
    \/ pongDue >= 0 /\ now >= pongDue

\* the instants at which something is due
Due ==
    (IF tickerOn THEN {nextTick} ELSE {})
    \cup (IF rpc = "read" THEN {deadline} ELSE {})
    \cup (IF cpc = "sleep" THEN {wake} ELSE {})
    \cup (IF pongDue >= 0 THEN {pongDue} ELSE {})
    \cup (IF cpcB = "sleep" THEN {wakeB} ELSE {})

Tick ==
    /\ Due # {}
    /\ ~WriterUrgent
    /\ ~(tickerOn /\ now >= nextTick)
    /\ ~ReaderUrgent
    /\ ~ChangeUrgent
    /\ ~TailUrgent
    /\ ~ClientUrgent
    /\ now' = Min(Due)
    /\ UNCHANGED <<otherVars, fileVars, tailVars, changeVars, data,
                   writerVars, conn, readerVars, clientVars, histVars>>

\* -------------------------------------------------------------------- Next
Next ==
    \/ TailOpen
    \/ TailLoad
    \/ \E ioerr \in BOOLEAN : TailRead(ioerr)
    \/ TailSend
    \/ TailErrData
    \/ TailExit
    \/ ChangeWake
    \/ ChangeAssign
    \/ WriterStart
    \/ TickerFire
    \/ WriterSelData
    \/ WriterSelStop
    \/ WriterSelTick
    \/ WriterWriteData
    \/ WriterWritePing
    \/ WriterWriteClose
    \/ WriterExit
    \/ ReaderStart
    \/ ReaderPong
    \/ ReaderFail
    \/ ReaderClose
    \/ \E f \in Files, n \in 1..LineLen : AppendBytes(f, n)
    \/ \E d \in PongDelays, answer \in BOOLEAN : ClientPing(d, answer)
    \/ PeerDrop
    \/ Tick

Spec == Init /\ [][Next]_vars

\* Every goroutine that can take a step takes one (the Go scheduler), timers
\* fire, time passes and a client that answers does answer.  Appends, read
\* errors and the peer dropping the connection are not bound to happen.
TailStep ==
    TailOpen \/ TailLoad \/ TailRead(FALSE) \/ TailSend \/ TailErrData
    \/ TailExit
ChangeStep == ChangeWake \/ ChangeAssign
WriterStep ==
    WriterStart \/ WriterSelData \/ WriterSelStop \/ WriterSelTick
    \/ WriterWriteData \/ WriterWritePing \/ WriterWriteClose \/ WriterExit
ReaderStep == ReaderStart \/ ReaderPong \/ ReaderFail \/ ReaderClose
ClientStep == \E d \in PongDelays, answer \in BOOLEAN : ClientPing(d, answer)

FairSpec ==
    /\ Spec
    /\ WF_vars(TailStep)
    /\ WF_vars(ChangeStep)
    /\ WF_vars(WriterStep)
    /\ WF_vars(ReaderStep)
    /\ WF_vars(ClientStep)
    /\ WF_vars(TickerFire)
    /\ WF_vars(Tick)

\* Two sessions of one program run, for as long as the connection of the
\* first is healthy and before its first ping is due: the steps of the
\* first session that feed and drain its data channel, and the line source
\* of the second.
NextTwo ==
    \/ WriterStart
    \/ ReaderStart
    \/ TailOpen
    \/ TailLoad
    \/ TailRead(FALSE)
    \/ TailSend
    \/ ChangeWake
    \/ ChangeAssign
    \/ WriterSelData
    \/ WriterWriteData
    \/ \E f \in Files, n \in 1..LineLen : AppendBytes(f, n)
    \/ Tick
    \/ OtherStart
    \/ OtherTailOpen
    \/ OtherTailLoad
    \/ OtherTailRead
    \/ OtherTailSend
    \/ OtherChangeWake
    \/ OtherChangeAssign

SpecTwo == Init /\ [][NextTwo]_vars

SpecBacklog == InitBacklog /\ [][Next]_vars

SpecResponsive == InitResponsive /\ [][Next]_vars

TypeOK ==
    /\ now \in Nat
    /\ Len(data) <= DataCap
    /\ tpc \in {"idle", "open", "load", "read", "send", "errData",
                "errStop", "exit", "done"}
    /\ wpc \in {"start", "select", "wData", "wPing", "wClose", "exit", "done"}
    /\ rpc \in {"start", "read", "closing", "done"}
    /\ cpc \in {"idle", "sleep", "assign", "done"}

\* ------------------------------------------------------- derived notions
\* the k-th line of file f, delimiter included
Line(f, k) == Payload(f, (k - 1) * LineLen + 1, k * LineLen)

\* lines of file f completed by appends made after the session started
AppendedLines(f) ==
    {k \in 1..(flen[f] \div LineLen) : k * LineLen > startLen[f]}

IsData(fr) == fr.kind = "data"
DataFrames == SelectSeq(log, IsData)
Positions(kind) == {i \in 1..Len(log) : log[i].kind = kind}
PositionsOf(pl) == {i \in Positions("data") : log[i].pl = pl}

\* nothing has ended the session: both loops run on a healthy connection
\* and tailFile has met no failure
Live ==
    /\ wpc \in {"select", "wData", "wPing"}
    /\ rpc = "read"
    /\ conn = "open"
    /\ peer = "up"
    /\ tailErr = "none"
    /\ tpc \in {"load", "read", "send"}

\* no goroutine, timer or client step is pending at this instant
Settled ==
    /\ ~WriterUrgent
    /\ ~(tickerOn /\ now >= nextTick)
    /\ ~ReaderUrgent
    /\ ~ChangeUrgent
    /\ ~TailUrgent
    /\ ~ClientUrgent

\* the session is over: every goroutine has returned, handles are released
Terminated ==
    /\ rpc = "done"
    /\ wpc = "done"
    /\ tpc = "done"
    /\ fopen = {}
    /\ conn = "closed"

\* ------------------------------------------------------------------ claims

\* C5: on one connection at most one write is in progress at any instant;
\* only the writer goroutine writes frames, and the frames on the connection
\* are the events its select took, in the order it took them (the last event
\* may still be in progress or may have failed).
C5_SingleWriter ==
    /\ Cardinality(writing) <= 1
    /\ \A w \in writing : w[1] = "writer" /\ w[2] = p
    /\ (writing # {}) = (wpc \in {"wData", "wPing", "wClose"})
    /\ Len(log) <= Len(observed)
    /\ Len(observed) <= Len(log) + 1
    /\ \A i \in 1..Len(log) : log[i].kind = observed[i]

C5_Witness ==
    /\ writing # {}
    /\ Positions("data") # {}
    /\ Positions("ping") # {}
    /\ rpc = "done"

ClientSilent ==
    /\ pongQuota = 0 \/ peer = "gone"
    /\ pongDue = -1
    /\ pongsOwed = 0

\* data frames that carry bytes of a file (not the sentinel)
FilePositions == {i \in Positions("data") : log[i].pl.src # 0}

\* C1: in a session on one file in which nothing has ended the session,
\* once tailFile and writer have nothing left to do every line appended
\* after the session started has been written as a data frame exactly once,
\* and the data frames are in file order.
C1_EveryLineDelivered ==
    (nfiles = 1 /\ Live /\ Settled) =>
        /\ \A k \in AppendedLines(1) :
              Cardinality(PositionsOf(Line(1, k))) = 1
        /\ \A i, j \in FilePositions :
              i < j => log[i].pl.hi < log[j].pl.lo

\* C2: after the read of the reader has failed, the session eventually
\* reaches CLOSED: reader, writer and tailFile have returned, the file
\* handles are released and the connection is closed.
C2_SessionEnds == (rpc = "closing") ~> Terminated

\* C3: when the primary file cannot be opened the session does not hang
\* (the writer returns and the connection is closed), and a close frame is
\* only ever written after the sentinel has been written as a data frame.
C3_SentinelBeforeClose ==
    ~exists[1] =>
        /\ Settled => (wpc = "done" /\ conn = "closed")
        /\ \A c \in Positions("close") :
              \E i \in PositionsOf(Sentinel) : i < c

\* the Sleep of changeTailFile has returned and rd has been replaced
Switched == cpc = "done"

\* C4: once the switchover delay has elapsed every data frame written
\* carries a line of the second file, and no line of the first file is
\* written after a line of the second file.
C4_SwitchoverOrder ==
    /\ [][(Switched /\ Len(log') = Len(log) + 1
              /\ log'[Len(log')].kind = "data"
              /\ log'[Len(log')].pl.src # 0)
            => log'[Len(log')].pl.src = 2]_vars
    /\ [](\A i, j \in FilePositions :
              i < j => ~(log[i].pl.src = 2 /\ log[j].pl.src = 1))

\* C6: once the client has fallen silent, a session that is not yet over is
\* within pongWait of the last ping written successfully and still has a
\* timer or a step pending that will end it.
C6_EndsWithinPongWait ==
    (lastProbe >= 0 /\ ClientSilent /\ ~Terminated) =>
        /\ now <= lastProbe + pongWait
        /\ ~(Settled /\ Due = {})

C8_OnlyAppendedContent ==
    /\ \A i \in FilePositions : log[i].pl.lo > startLen[log[i].pl.src]
    /\ (/\ nfiles = 1
        /\ startLen[1] = LineLen
        /\ flen[1] = 2 * LineLen
        /\ now < pingPeriod
        /\ Live
        /\ Settled)
       => (/\ DataFrames = <<Frame("data", Line(1, 2))>>
           /\ Positions("ping") = {})

\* C9, for the interval that starts with the session: after n whole
\* heartbeat periods of a live session in which nothing was appended, n ping
\* frames and no data frame have been written.
C9_PingsOnlyWhenIdle ==
    \A n \in 1..3 :
        (now = n * pingPeriod /\ Settled /\ Live /\ quota = MaxBytes) =>
            /\ Cardinality(Positions("ping")) = n
            /\ Positions("data") = {}

\* the events of the writer's select that were the stop signal
CloseEvents == {i \in 1..Len(observed) : observed[i] = "close"}

\* C11: each receipt of the stop signal is followed by one attempt to write
\* a close frame and by the return of the writer; a close frame is written
\* on no other path, at most once per session, and it is the last frame; an
\* exit of the writer without it follows a failed data or ping write.
C11_CloseOnlyOnStop ==
    /\ Cardinality(CloseEvents) = stopSent
    /\ Cardinality(CloseEvents) <= 1
    /\ \A i \in CloseEvents : i = Len(observed)
    /\ \A c \in Positions("close") : c = Len(log) /\ observed[c] = "close"
    /\ (CloseEvents # {}) => (wpc \in {"wClose", "exit", "done"})
    /\ (wpc = "wClose") => (CloseEvents # {} /\ p.kind = "close")
    /\ (wpc \in {"exit", "done"} /\ CloseEvents = {}) =>
          /\ Len(observed) = Len(log) + 1
          /\ observed[Len(observed)] \in {"data", "ping"}

C11_Witness ==
    /\ wpc = "done"
    /\ Positions("close") # {}
    /\ Positions("data") # {}
    /\ Positions("ping") # {}

\* the session is CLOSED: connection handle closed, heartbeat ticker stopped
Closed == conn = "closed" /\ ~tickerOn /\ tickPeriod # 0

\* C12: no session is CLOSED without a close-frame write having been
\* attempted on its connection before.
C12_CloseAttemptedBeforeClosed ==
    Closed => CloseEvents # {}

\* places of the sentinel in the data channel
QueuedSentinels == {i \in 1..Len(data) : data[i] = Sentinel}

\* C13: after a read of tailFile has failed with an error other than
\* end-of-file, at most one sentinel exists, it is the last thing in the
\* data channel, the stop signal is not raised before the sentinel has been
\* put into the channel, and once nothing is left to do tailFile has
\* returned.
C13_ReadErrorStops ==
    (tailErr = "read") =>
        /\ Cardinality(QueuedSentinels) + Cardinality(PositionsOf(Sentinel))
              <= 1
        /\ \A i \in QueuedSentinels : i = Len(data)
        /\ (tpc \in {"errStop", "exit", "done"}) =>
              \/ QueuedSentinels # {}
              \/ PositionsOf(Sentinel) # {}
              \/ p = Frame("data", Sentinel)
        /\ Settled => (tpc = "done")

\* C14: a read of tailFile that returns end-of-file puts nothing into the
\* data channel, raises no stop signal, leaves writer and connection alone
\* and takes tailFile back to the next read; while end-of-file is the last
\* result, however often it came, tailFile is in its loop and has reported
\* no failure.
C14_EofNotSurfaced ==
    /\ [](err = "EOF" =>
            /\ tpc \in {"load", "read"}
            /\ tailErr = "none"
            /\ stopSent = 0
            /\ QueuedSentinels = {}
            /\ PositionsOf(Sentinel) = {})
    /\ [][(tpc = "read" /\ tpc' # "read" /\ err' = "EOF") =>
            /\ tpc' = "load"
            /\ data' = data
            /\ stopSent' = stopSent
            /\ wpc' = wpc
            /\ conn' = conn]_vars

C14_Witness ==
    /\ err = "EOF"
    /\ off[1] = flen[1]
    /\ off[1] % LineLen # 0
    /\ now >= pingPeriod
    /\ Positions("ping") # {}
    /\ Live

\* C15: no two line sources are inside a read through the same reader at
\* the same instant, and while the line source of a session is in its loop
\* the handle in rd is replaced only by the switchover of that session.
C15_OneSourcePerHandle ==
    /\ [](~Racing)
    /\ [][(tpc \in {"load", "read", "send"} /\ rd' # rd) => rd' \in {1, 2}]_vars
    /\ [][(tpcB \in {"load", "read", "send"} /\ rd' # rd) => rd' \in {3, 4}]_vars

\* lines the line source of the session got from its reads
LinesRead == (off[1] \div LineLen) + (off[2] \div LineLen)

\* lines and sentinels the writer has taken from the data channel
LinesTaken == Cardinality({i \in 1..Len(observed) : observed[i] = "data"})

\* C16: the data channel never holds more than 10 lines; while it holds 10
\* and tailFile is at its send, tailFile stays there and reads nothing until
\* the writer takes a line; and every line read is in the channel, has been
\* taken by the writer or is the one tailFile is about to send, the lines
\* of a file being in the channel in the order they were read.
C16_BoundedChannel ==
    /\ [](Len(data) <= DataCap)
    /\ [](LinesTaken + Len(data) + (IF tpc = "send" THEN 1 ELSE 0)
            = LinesRead
              + (IF tpc \in {"errStop", "exit", "done"} THEN 1 ELSE 0))
    /\ [](\A i, j \in 1..Len(data) :
            (i < j /\ data[i].src # 0 /\ data[i].src = data[j].src)
                => data[i].hi < data[j].lo)
    /\ [][(tpc = "send" /\ Len(data) = DataCap /\ data' = data)
            => (tpc' = "send" /\ off' = off /\ line' = line)]_vars

C16_Witness ==
    /\ Len(data) = DataCap
    /\ tpc = "send"
    /\ line = Line(1, DataCap + 1)
    /\ wpc = "select"

\* C17: whenever the writer has returned, by whichever path, the ticker has
\* been stopped and the connection closed by it, no write is in progress,
\* and from then on no tick is delivered or acted on and no frame is
\* written.
C17_WriterExitCleansUp ==
    /\ [](wpc = "done" =>
            /\ ~tickerOn
            /\ conn = "closed"
            /\ writing = {}
            /\ \E i \in 1..Len(closes) : closes[i] = "writer")
    /\ [][wpc = "done" =>
            /\ wpc' = "done"
            /\ log' = log
            /\ observed' = observed
            /\ writing' = writing
            /\ tickC' = tickC
            /\ tickerOn' = tickerOn]_vars

C17_Witness ==
    /\ wpc = "done"
    /\ rpc = "done"
    /\ tickC
    /\ lastProbe >= 0
    /\ CloseEvents = {}

\* the later of the start of the reader and the last pong it received
LastRefresh == IF lastPong > readStart THEN lastPong ELSE readStart

\* C18: while the reader is in its loop the read deadline is pongWait after
\* the later of its start and the last pong received, and time does not
\* pass the deadline; the deadline moves only when the reader starts or a
\* pong is received, and then to now + pongWait; once the deadline has
\* passed and nothing is left to do the reader has returned and has closed
\* the connection.
C18_DeadlineFollowsPongs ==
    /\ [](rpc = "read" =>
            /\ deadline = LastRefresh + pongWait
            /\ now <= deadline)
    /\ []((rpc # "start" /\ now >= deadline /\ Settled) =>
            /\ rpc = "done"
            /\ conn = "closed"
            /\ \E i \in 1..Len(closes) : closes[i] = "reader")
    /\ [][deadline' # deadline =>
            /\ deadline' = now + pongWait
            /\ \/ rpc = "start" /\ rpc' = "read"
               \/ lastPong' = now /\ pongDue >= 0 /\ pongDue' = -1]_vars

C18_Witness ==
    /\ rpc = "done"
    /\ peer = "up"
    /\ lastPong > readStart
    /\ now = lastPong + pongWait
    /\ closes = <<"reader">>
    /\ Positions("data") # {}

\* C19: while the client has answered every ping it took with a pong that
\* arrives less than pongWait - pingPeriod later, the reader is not ended by
\* its read deadline: the deadline is still ahead while the reader is in
\* its loop and at the instant its read fails; and while the writer waits
\* in its select on a healthy connection the last ping, or the start of the
\* session, is at most pingPeriod old.
C19_NoExpiryWhileResponsive ==
    responsive =>
        /\ (rpc \in {"read", "closing"}) => now < deadline
        /\ (wpc = "select" /\ ConnOk /\ Settled) =>
              now <= (IF lastProbe < 0 THEN 0 ELSE lastProbe) + pingPeriod

C19_Witness ==
    /\ responsive
    /\ rpc = "read"
    /\ wpc = "select"
    /\ pongQuota = 0
    /\ lastPong >= 2 * pingPeriod
    /\ now > lastPong

\* pl is the sentinel or one whole line of a watched file, from the byte
\* after the previous delimiter to its own delimiter
CompleteLine(pl) ==
    \/ pl = Sentinel
    \/ /\ pl.src \in Files
       /\ \E k \in 1..(flen[pl.src] \div LineLen) : pl = Line(pl.src, k)

\* C20: every data frame written, and every entry of the data channel, is
\* the sentinel or a complete line that ends with the delimiter.
C20_OnlyCompleteLines ==
    /\ \A i \in Positions("data") : CompleteLine(log[i].pl)
    /\ \A i \in 1..Len(data) : CompleteLine(data[i])

====
